---- MODULE Spec2Model ----
(***************************************************************************)
(* Two render passes of the engine:                                        *)
(*   - DrawShadedSeparate (amethyst_renderer/src/pass/shaded/separate.rs): *)
(*     the descriptor's builder calls and the per-frame apply step;        *)
(*   - DrawSkybox (amethyst_rendy/src/pass/skybox.rs): build, prepare,     *)
(*     draw_inline and dispose, with the factory's resource accounting.    *)
(* Rust's Option is written as a sequence: None is <<>>, Some(x) is <<x>>. *)
(***************************************************************************)
EXTENDS Naturals, Sequences, FiniteSets

VARIABLES
    \* DrawShadedSeparate descriptor
    shaded,         \* [skinning, transparency]
    calls,          \* the last builder calls, each with the descriptor it was made on
    \* frame data handed to DrawShadedSeparate::apply
    joints, mesh, material, transform, rgba, hidden, hidden_prop,
    mesh_storage,   \* entities whose mesh handle resolves in AssetStorage<Mesh>
    visibility,     \* Option<Visibility>
    encoder,        \* what apply recorded on the encoder
    applied,        \* apply has run for this frame
    \* DrawSkybox
    pc,             \* "desc", "live", "failed", "panicked", "disposed"
    desc,           \* DrawSkyboxDesc
    skybox,         \* Option<DrawSkybox>
    settings_res,   \* Option<SkyboxSettings>: the override resource
    factory,        \* objects created and destroyed through the factory, by kind
    fail,           \* the step of the last build that the device made fail
    result,         \* Result of the last build: "Ok", "Err", "panic", or "none"
    prepares,       \* the last prepare calls of the instance
    last,           \* the last call made on the instance
    pass_encoder    \* the commands recorded on the frame's render pass encoder

descVars == <<shaded, calls>>
frameVars == <<joints, mesh, material, transform, rgba, hidden, hidden_prop,
               mesh_storage, visibility>>
applyVars == <<frameVars, encoder, applied>>
skyVars == <<pc, desc, skybox, settings_res, factory, fail, result, prepares,
             last, pass_encoder>>
vars == <<descVars, applyVars, skyVars>>

None == <<>>
Some(x) == <<x>>

\* The last N elements of s \o <<x>>.
Window(s, x, n) ==
    LET t == Append(s, x)
    IN  IF Len(t) <= n THEN t ELSE SubSeq(t, Len(t) - n + 1, Len(t))

(***************************************************************************)
(* DrawShadedSeparate: descriptor                                          *)
(***************************************************************************)
ColorMasks == {"ALL", "RED"}
Blends == {"ALPHA", "ADD"}
DepthModes == {None, Some("LessEqualWrite"), Some("LessEqualTest")}

\* pass::util::default_transparency()
default_transparency == Some(<<"ALL", "ALPHA", Some("LessEqualWrite")>>)

\* DrawShadedSeparate::new(): Default::default()
new == [skinning |-> FALSE, transparency |-> default_transparency]

\* The descriptor after self.skinning = true
SetSkinning(self) == [self EXCEPT !.skinning = TRUE]

\* Faulty variant: the false branch leaves the setting in place
SetTransparencyKeep(self, input) ==
    IF input
    THEN IF self.transparency = None
         THEN [self EXCEPT !.transparency = default_transparency]
         ELSE self
    ELSE self

\* Faulty variant: passing true always reinstates the default
SetTransparencyReset(self, input) ==
    IF input
    THEN [self EXCEPT !.transparency = default_transparency]
    ELSE [self EXCEPT !.transparency = None]

\* The descriptor that with_transparency(input) returns
SetTransparency(self, input) ==
    IF input
    THEN IF self.transparency = None
         THEN [self EXCEPT !.transparency = default_transparency]
         ELSE self
    ELSE [self EXCEPT !.transparency = None]

\* The descriptor that with_transparency_settings(mask, blend, depth) returns
SetTransparencySettings(self, mask, blend, depth) ==
    [self EXCEPT !.transparency = Some(<<mask, blend, depth>>)]

Called(op, args) == [op |-> op, args |-> args, pre |-> shaded]

with_vertex_skinning ==
    /\ shaded' = SetSkinning(shaded)
    /\ calls' = Window(calls, Called("with_vertex_skinning", <<>>), 2)
    /\ UNCHANGED <<applyVars, skyVars>>

with_transparency(input) ==
    /\ shaded' = SetTransparency(shaded, input)
    /\ calls' = Window(calls, Called("with_transparency", <<input>>), 2)
    /\ UNCHANGED <<applyVars, skyVars>>

with_transparency_settings(mask, blend, depth) ==
    /\ shaded' = SetTransparencySettings(shaded, mask, blend, depth)
    /\ calls' = Window(calls, Called("with_transparency_settings", <<mask, blend, depth>>), 2)
    /\ UNCHANGED <<applyVars, skyVars>>

(***************************************************************************)
(* DrawShadedSeparate::apply                                               *)
(***************************************************************************)
Entity == {"e1", "e2", "e3"}

\* Longest visible_ordered list of a frame.
MaxOrdered == 2

\* storage.get(entity): the component of an entity is named by the entity.
Get(storage, e) == IF e \in storage THEN Some(e) ELSE None

\* The orders in which a join may yield the entities of S.
JoinOrders(S) ==
    {f \in [1..Cardinality(S) -> S] : \A i, j \in DOMAIN f : i # j => f[i] # f[j]}

\* One pass::util::draw_mesh call and the arguments it is given; loop names the
\* loop of apply that made the call.
DrawMesh(loop, e, mesh_arg, joint, material_arg, rgba_arg, transform_arg) ==
    [call |-> "draw_mesh", loop |-> loop, entity |-> e,
     skinning |-> shaded.skinning, mesh |-> mesh_arg, joint |-> joint,
     material |-> material_arg, rgba |-> rgba_arg, transform |-> transform_arg]

\* Faulty variant: the join forgets the !&hidden_prop filter
JoinHiddenOnly ==
    {e \in Entity : /\ e \in mesh /\ e \in material /\ e \in transform
                    /\ e \notin hidden}

\* (joints.maybe(), &mesh, &material, &transform, rgba.maybe(), !&hidden,
\*  !&hidden_prop).join()
JoinNotHidden ==
    {e \in Entity : /\ e \in mesh /\ e \in material /\ e \in transform
                    /\ e \notin hidden /\ e \notin hidden_prop}

\* Faulty variant: the join leaves out &visibility.visible_unordered
JoinVisibleAll(v) ==
    {e \in Entity : /\ e \in mesh /\ e \in material /\ e \in transform}

\* (joints.maybe(), &mesh, &material, &transform, rgba.maybe(),
\*  &visibility.visible_unordered).join()
JoinVisible(v) ==
    {e \in Entity : /\ e \in mesh /\ e \in material /\ e \in transform
                    /\ e \in v.visible_unordered}

\* The body of both join loops: the draw_mesh call for one joined entity.
JoinDraw(loop, e) ==
    DrawMesh(loop, e, Get(mesh_storage, e), Get(joints, e), Some(e), Get(rgba, e),
             Some(e))

\* The calls of a join loop that yields its entities in the given order.
JoinDraws(loop, order) == [i \in DOMAIN order |-> JoinDraw(loop, order[i])]

\* The body of the visible_ordered loop for one entity: a call, or nothing.
OrderedDraw(e) ==
    IF Get(mesh, e) # None
    THEN <<DrawMesh("ordered", e, Get(mesh_storage, e), Get(joints, e),
                    Get(material, e), Get(rgba, e), Get(transform, e))>>
    ELSE <<>>

RECURSIVE OrderedFrom(_, _)
OrderedFrom(ordered, i) ==
    IF i > Len(ordered) THEN <<>>
    ELSE OrderedDraw(ordered[i]) \o OrderedFrom(ordered, i + 1)

\* Faulty variant: the loop walks visible_ordered from its end
RECURSIVE OrderedBackFrom(_, _)
OrderedBackFrom(ordered, i) ==
    IF i < 1 THEN <<>>
    ELSE OrderedDraw(ordered[i]) \o OrderedBackFrom(ordered, i - 1)

OrderedDrawsReversed(v) == OrderedBackFrom(v.visible_ordered, Len(v.visible_ordered))

\* Faulty variant: the loop also skips an entity without material
OrderedDrawsNeedMaterial(v) ==
    OrderedFrom(SelectSeq(v.visible_ordered, LAMBDA e : e \in material), 1)

\* for entity in &visibility.visible_ordered { ... }
OrderedDraws(v) == OrderedFrom(v.visible_ordered, 1)

\* What apply records when its join yields the entities in the given order.
Recorded(order) ==
    <<[call |-> "set_light_args"]>> \o
    (IF visibility = None
     THEN JoinDraws("join", order)
     ELSE JoinDraws("unordered", order) \o OrderedDraws(visibility[1]))

apply ==
    /\ ~applied
    /\ \E order \in JoinOrders(IF visibility = None THEN JoinNotHidden
                               ELSE JoinVisible(visibility[1])) :
           encoder' = Recorded(order)
    /\ applied' = TRUE
    /\ UNCHANGED <<frameVars, descVars, skyVars>>

(***************************************************************************)
(* DrawSkybox                                                              *)
(***************************************************************************)
\* Frame indices in flight: 0 .. FrameCount - 1.
FrameCount == 2

\* Largest vertex count the generated sphere may have.
MaxMeshLen == 2

\* Srgb colours, components in hundredths.
Srgbs == {<<10, 30, 35>>, <<75, 100, 100>>}

SkyboxSettings == [nadir_color : Srgbs, zenith_color : Srgbs]

\* impl Default for SkyboxSettings
SkyboxSettingsDefault ==
    [nadir_color |-> <<10, 30, 35>>, zenith_color |-> <<75, 100, 100>>]

\* SkyboxSettings::uniform: each colour into a vec3, the record laid out as
\* std140 (a vec3 takes four words, the fourth is padding).
uniform(s) ==
    <<s.nadir_color[1], s.nadir_color[2], s.nadir_color[3], 0,
      s.zenith_color[1], s.zenith_color[2], s.zenith_color[3], 0>>

Kinds == {"pipeline_layout", "shader_module", "graphics_pipeline"}

\* The factory after one more object of the kind was created / destroyed. A create
\* call that fails creates nothing and is not counted.
Create(f, kind) == [f EXCEPT !.created[kind] = @ + 1]
Destroy(f, kind) == [f EXCEPT !.destroyed[kind] = @ + 1]

\* The steps of build that the device can make fail.
FailPoints == {"none", "env", "colors", "mesh", "pipeline_layout", "shader_vertex",
               "shader_fragment", "pipeline"}

\* Faulty variant: the Err arm returns without destroying the pipeline layout
build_skybox_pipeline_leak(f, failing) ==
    LET f1 == Create(f, "pipeline_layout")
        f2 == Create(f1, "shader_module")
        f3 == Create(f2, "shader_module")
        f4 == IF failing = "pipeline" THEN f3 ELSE Create(f3, "graphics_pipeline")
        f5 == Destroy(Destroy(f4, "shader_module"), "shader_module")
    IN  IF failing = "pipeline_layout" THEN [factory |-> f, result |-> "Err"]
        ELSE IF failing = "shader_vertex" THEN [factory |-> f1, result |-> "panic"]
        ELSE IF failing = "shader_fragment" THEN [factory |-> f2, result |-> "panic"]
        ELSE IF failing = "pipeline" THEN [factory |-> f5, result |-> "Err"]
        ELSE [factory |-> f5, result |-> "Ok"]

\* build_skybox_pipeline: the factory it leaves and how it returns. `?` returns
\* Err, unwrap() on an Err panics.
build_skybox_pipeline(f, failing) ==
    LET f1 == Create(f, "pipeline_layout")
        f2 == Create(f1, "shader_module")
        f3 == Create(f2, "shader_module")
        f4 == IF failing = "pipeline" THEN f3 ELSE Create(f3, "graphics_pipeline")
        f5 == Destroy(Destroy(f4, "shader_module"), "shader_module")
    IN  IF failing = "pipeline_layout" THEN [factory |-> f, result |-> "Err"]
        ELSE IF failing = "shader_vertex" THEN [factory |-> f1, result |-> "panic"]
        ELSE IF failing = "shader_fragment" THEN [factory |-> f2, result |-> "panic"]
        ELSE IF failing = "pipeline"
             THEN [factory |-> Destroy(f5, "pipeline_layout"), result |-> "Err"]
        ELSE [factory |-> f5, result |-> "Ok"]

\* DrawSkyboxDesc::new(): Default::default()
new_desc == [default_settings |-> SkyboxSettingsDefault]

\* DrawSkyboxDesc::with_colors
with_colors(nadir_color, zenith_color) ==
    [default_settings |-> [nadir_color |-> nadir_color, zenith_color |-> zenith_color]]

\* The DrawSkybox that build boxes, around a sphere of n vertices.
DrawSkybox(n) ==
    [pipeline |-> "pipeline", pipeline_layout |-> "pipeline_layout",
     env |-> {}, colors |-> [i \in 0..(FrameCount - 1) |-> None],
     mesh |-> [format |-> "PosTex", len |-> n],
     default_settings |-> desc.default_settings]

\* DrawSkyboxDesc::build: env, colors and mesh are owned values, released when
\* build returns early; the pipeline layout and the shader modules are raw
\* device objects.
build(failing, n) ==
    /\ pc = "desc"
    /\ LET r == IF failing \in {"env", "colors", "mesh"}
                THEN [factory |-> factory, result |-> "Err"]
                ELSE build_skybox_pipeline(factory, failing)
       IN  /\ factory' = r.factory
           /\ result' = r.result
           /\ pc' = IF r.result = "Ok" THEN "live"
                    ELSE IF r.result = "Err" THEN "failed" ELSE "panicked"
           /\ skybox' = IF r.result = "Ok" THEN Some(DrawSkybox(n)) ELSE None
    /\ fail' = failing
    /\ UNCHANGED <<desc, settings_res, prepares, last, pass_encoder>>
    /\ UNCHANGED <<descVars, applyVars>>

\* Faulty variant: prepare ignores the override resource
ResolveDefault(self) == uniform(self.default_settings)

\* <(Option<Read<SkyboxSettings>>)>::fetch(resources).map(|s| s.uniform())
\*     .unwrap_or_else(|| self.default_settings.uniform())
Resolve(self) ==
    IF settings_res # None THEN uniform(settings_res[1])
    ELSE uniform(self.default_settings)

\* FlatEnvironmentSub::process: the binder is refreshed for the frame index.
EnvProcess(env, index) == env \cup {index}

\* DynamicUniform::write: the item goes into the slot of the frame index; changed
\* tells whether the slot's contents changed. The frame gets a fresh encoder.
DynamicWrite(colors, index, item) ==
    [colors |-> [colors EXCEPT ![index] = Some(item)],
     changed |-> colors[index] # Some(item)]

PrepareResult(changed) == IF changed THEN "DrawRecord" ELSE "DrawReuse"

prepare(index) ==
    /\ pc = "live"
    /\ LET self == skybox[1]
           settings == Resolve(self)
           w == DynamicWrite(self.colors, index, settings)
       IN  /\ skybox' = Some([self EXCEPT !.env = EnvProcess(@, index),
                                          !.colors = w.colors])
           /\ prepares' = Window(prepares,
                                 [index |-> index, source |-> settings_res,
                                  result |-> PrepareResult(w.changed)], 2)
    /\ last' = [op |-> "prepare", index |-> index]
    /\ pass_encoder' = <<>>
    /\ UNCHANGED <<pc, desc, settings_res, factory, fail, result>>
    /\ UNCHANGED <<descVars, applyVars>>

\* Faulty variant: the two resource sets are bound at each other's slot
DrawCommandsSwapped(self, index) ==
    <<[cmd |-> "bind_graphics_pipeline", pipeline |-> self.pipeline],
      [cmd |-> "bind_set", set |-> "env", layout |-> self.pipeline_layout,
       slot |-> 1, index |-> index],
      [cmd |-> "bind_set", set |-> "colors", layout |-> self.pipeline_layout,
       slot |-> 0, index |-> index],
      [cmd |-> "bind_vertex_buffers", first |-> 0, format |-> self.mesh.format],
      [cmd |-> "draw", vertices |-> <<0, self.mesh.len>>, instances |-> <<0, 1>>]>>

\* What draw_inline records on its encoder. The mesh was built from PosTex
\* vertices, so mesh.bind(0, &[PosTex::vertex()], ..) is Ok and unwrap() returns.
DrawCommands(self, index) ==
    <<[cmd |-> "bind_graphics_pipeline", pipeline |-> self.pipeline],
      [cmd |-> "bind_set", set |-> "env", layout |-> self.pipeline_layout,
       slot |-> 0, index |-> index],
      [cmd |-> "bind_set", set |-> "colors", layout |-> self.pipeline_layout,
       slot |-> 1, index |-> index],
      [cmd |-> "bind_vertex_buffers", first |-> 0, format |-> self.mesh.format],
      [cmd |-> "draw", vertices |-> <<0, self.mesh.len>>, instances |-> <<0, 1>>]>>

\* The render graph records a frame's draw after it prepared that frame index.
draw_inline(index) ==
    /\ pc = "live"
    /\ skybox[1].colors[index] # None
    /\ pass_encoder' = DrawCommands(skybox[1], index)
    /\ last' = [op |-> "draw_inline", index |-> index, pre |-> skybox]
    /\ UNCHANGED <<pc, desc, skybox, settings_res, factory, fail, result, prepares>>
    /\ UNCHANGED <<descVars, applyVars>>

dispose ==
    /\ pc = "live"
    /\ factory' = Destroy(Destroy(factory, "graphics_pipeline"), "pipeline_layout")
    /\ skybox' = None
    /\ pc' = "disposed"
    /\ prepares' = <<>>
    /\ last' = [op |-> "dispose"]
    /\ pass_encoder' = <<>>
    /\ UNCHANGED <<desc, settings_res, fail, result>>
    /\ UNCHANGED <<descVars, applyVars>>

\* The world inserts, replaces or removes the SkyboxSettings resource.
insert_settings(s) ==
    /\ pc \in {"desc", "live"}
    /\ settings_res # Some(s)
    /\ settings_res' = Some(s)
    /\ UNCHANGED <<pc, desc, skybox, factory, fail, result, prepares, last, pass_encoder>>
    /\ UNCHANGED <<descVars, applyVars>>

remove_settings ==
    /\ pc \in {"desc", "live"}
    /\ settings_res # None
    /\ settings_res' = None
    /\ UNCHANGED <<pc, desc, skybox, factory, fail, result, prepares, last, pass_encoder>>
    /\ UNCHANGED <<descVars, applyVars>>

(***************************************************************************)
(* Specifications                                                          *)
(***************************************************************************)
Seqs(S, n) == UNION {[1..k -> S] : k \in 0..n}

\* Stores whose components apply only passes on: none or every entity has one.
PassedOn == {{}, Entity}

NoFactory == [created |-> [k \in Kinds |-> 0], destroyed |-> [k \in Kinds |-> 0]]

DescIdle == shaded = new /\ calls = <<>>

FrameIdle ==
    /\ joints = {} /\ mesh = {} /\ material = {} /\ transform = {} /\ rgba = {}
    /\ hidden = {} /\ hidden_prop = {} /\ mesh_storage = {}
    /\ visibility = None /\ encoder = <<>> /\ applied = FALSE

SkyIdle ==
    /\ pc = "desc" /\ desc = new_desc
    /\ skybox = None /\ settings_res = None /\ factory = NoFactory
    /\ fail = "none" /\ result = "none" /\ prepares = <<>>
    /\ last = [op |-> "none"] /\ pass_encoder = <<>>

\* The descriptor's builder calls, from DrawShadedSeparate::new().
InitDesc == DescIdle /\ FrameIdle /\ SkyIdle

NextDesc ==
    \/ with_vertex_skinning
    \/ \E input \in BOOLEAN : with_transparency(input)
    \/ \E mask \in ColorMasks, blend \in Blends, depth \in DepthModes :
           with_transparency_settings(mask, blend, depth)

SpecDesc == InitDesc /\ [][NextDesc]_vars

\* One frame of apply, over every frame data. A Visibility resource is computed
\* from entities that are not hidden.
InitApply ==
    /\ DescIdle /\ SkyIdle
    /\ mesh \in SUBSET Entity /\ material \in SUBSET Entity
    /\ transform \in SUBSET Entity
    /\ joints \in PassedOn /\ rgba \in PassedOn /\ mesh_storage \in PassedOn
    /\ \/ /\ visibility = None
          /\ hidden \in SUBSET Entity /\ hidden_prop \in SUBSET Entity
       \/ /\ visibility \in {Some([visible_unordered |-> u, visible_ordered |-> o]) :
                               u \in SUBSET Entity, o \in Seqs(Entity, MaxOrdered)}
          /\ hidden = {} /\ hidden_prop = {}
    /\ encoder = <<>> /\ applied = FALSE

NextApply == apply

SpecApply == InitApply /\ [][NextApply]_vars

\* The life of one skybox pass: build, then prepare and draw_inline per frame,
\* then dispose. The descriptor comes from new() or from with_colors, there with
\* the default's two colours exchanged.
InitSky ==
    /\ DescIdle /\ FrameIdle
    /\ pc = "desc"
    /\ desc \in {new_desc, with_colors(<<75, 100, 100>>, <<10, 30, 35>>)}
    /\ skybox = None /\ settings_res = None /\ factory = NoFactory
    /\ fail = "none" /\ result = "none" /\ prepares = <<>>
    /\ last = [op |-> "none"] /\ pass_encoder = <<>>

NextSky ==
    \/ \E failing \in FailPoints, n \in 1..MaxMeshLen : build(failing, n)
    \/ \E index \in 0..(FrameCount - 1) : prepare(index)
    \/ \E index \in 0..(FrameCount - 1) : draw_inline(index)
    \/ dispose
    \/ \E s \in SkyboxSettings : insert_settings(s)
    \/ remove_settings

SpecSky == InitSky /\ [][NextSky]_vars

(***************************************************************************)
(* Properties of the descriptor (SpecDesc)                                 *)
(***************************************************************************)
IsCall(c, op, args) == c.op = op /\ c.args = args

OffThenOn ==
    /\ Len(calls) = 2
    /\ IsCall(calls[1], "with_transparency", <<FALSE>>)
    /\ IsCall(calls[2], "with_transparency", <<TRUE>>)

\* C2: on any descriptor, with_transparency(false) followed by
\* with_transparency(true) leaves transparency equal to default_transparency():
\* not None, and not the custom setting the descriptor had before the false call.
C2_OffOnGivesDefault ==
    OffThenOn =>
        /\ shaded.transparency = default_transparency
        /\ shaded.transparency # None
        /\ calls[1].pre.transparency # default_transparency
               => shaded.transparency # calls[1].pre.transparency

\* The two calls were made on a skinned descriptor with a custom setting.
C2_Witness ==
    /\ OffThenOn
    /\ calls[1].pre.skinning
    /\ calls[1].pre.transparency = Some(<<"RED", "ADD", None>>)
    /\ shaded.transparency = default_transparency

SettingsThenOn ==
    /\ Len(calls) = 2
    /\ calls[1].op = "with_transparency_settings"
    /\ IsCall(calls[2], "with_transparency", <<TRUE>>)

\* C3: with_transparency_settings(m, b, d) followed by with_transparency(true)
\* leaves transparency equal to Some((m, b, d)) and the skinning flag as it was;
\* with_transparency(true) on a descriptor whose transparency is enabled returns
\* the descriptor unchanged.
C3_OnKeepsSettings ==
    /\ SettingsThenOn =>
           /\ shaded.transparency = Some(calls[1].args)
           /\ shaded.skinning = calls[1].pre.skinning
    /\ \A i \in DOMAIN calls :
           (i = Len(calls) /\ IsCall(calls[i], "with_transparency", <<TRUE>>)
                           /\ calls[i].pre.transparency # None)
               => shaded = calls[i].pre

\* Custom settings with no depth mode, on a skinned descriptor whose transparency
\* was off.
C3_Witness ==
    /\ SettingsThenOn
    /\ calls[1].args = <<"RED", "ADD", None>>
    /\ calls[1].pre = [skinning |-> TRUE, transparency |-> None]
    /\ shaded = [skinning |-> TRUE, transparency |-> Some(<<"RED", "ADD", None>>)]

(***************************************************************************)
(* Properties of apply (SpecApply)                                         *)
(***************************************************************************)
\* The draw_mesh calls on the encoder, in the order they were made.
Draws == SelectSeq(encoder, LAMBDA c : c.call = "draw_mesh")

DrawsOf(loop) == SelectSeq(Draws, LAMBDA c : c.loop = loop)

Entities(draws) == [i \in DOMAIN draws |-> draws[i].entity]

\* How many elements of the sequence satisfy Test.
Count(seq, Test(_)) == Cardinality({i \in DOMAIN seq : Test(seq[i])})

DrawCount(e) == Count(Draws, LAMBDA c : c.entity = e)

Occurrences(e, ordered) == Count(ordered, LAMBDA x : x = e)

WithVisibility == applied /\ visibility # None

\* C1: with a Visibility resource, every draw call of the visible_unordered join
\* precedes every draw call of the visible_ordered loop, and the calls of that
\* loop follow the order of visible_ordered.
C1_UnorderedBeforeOrdered ==
    WithVisibility =>
        /\ \A i, j \in DOMAIN Draws :
               (Draws[i].loop = "unordered" /\ Draws[j].loop = "ordered") => i < j
        /\ Entities(DrawsOf("ordered"))
               = SelectSeq(visibility[1].visible_ordered, LAMBDA e : e \in mesh)

\* visible_ordered = [e1, e2] and visible_unordered = {e3}, all three with mesh,
\* material and transform: e3, then e1, then e2.
C1_Witness ==
    /\ WithVisibility
    /\ visibility[1] = [visible_unordered |-> {"e3"}, visible_ordered |-> <<"e1", "e2">>]
    /\ mesh = Entity /\ material = Entity /\ transform = Entity
    /\ Entities(Draws) = <<"e3", "e1", "e2">>

\* C6: in the visible_ordered loop an entity without mesh handle gets no draw
\* call, an entity with one gets a call per occurrence in visible_ordered, and
\* material, transform, joint transforms and tint are each passed as the entity
\* has them, absent when absent.
C6_OrderedNeedsOnlyMesh ==
    WithVisibility =>
        /\ \A e \in Entity :
               Count(DrawsOf("ordered"), LAMBDA c : c.entity = e)
                   = IF e \in mesh THEN Occurrences(e, visibility[1].visible_ordered)
                     ELSE 0
        /\ \A i \in DOMAIN Draws :
               Draws[i].loop = "ordered" =>
                   LET c == Draws[i] IN
                   /\ c.material = (IF c.entity \in material THEN <<c.entity>> ELSE <<>>)
                   /\ c.transform = (IF c.entity \in transform THEN <<c.entity>> ELSE <<>>)
                   /\ c.joint = (IF c.entity \in joints THEN <<c.entity>> ELSE <<>>)
                   /\ c.rgba = (IF c.entity \in rgba THEN <<c.entity>> ELSE <<>>)

\* e1 has only a mesh handle and is drawn with everything else absent; e2 has
\* material and transform but no mesh handle and is not drawn.
C6_Witness ==
    /\ WithVisibility
    /\ visibility[1].visible_ordered = <<"e2", "e1">>
    /\ visibility[1].visible_unordered = {}
    /\ "e1" \in mesh /\ "e1" \notin material /\ "e1" \notin transform
    /\ joints = {} /\ rgba = {}
    /\ "e2" \notin mesh /\ "e2" \in material /\ "e2" \in transform
    /\ Len(Draws) = 1
    /\ Draws[1].entity = "e1" /\ Draws[1].material = None /\ Draws[1].transform = None
    /\ Draws[1].joint = None /\ Draws[1].rgba = None

\* C7: with no Visibility resource, the entities drawn are exactly those with
\* mesh handle, material and transform that carry neither Hidden nor
\* HiddenPropagate.
C7_NoVisibilityDrawsNotHidden ==
    (applied /\ visibility = None) =>
        {Draws[i].entity : i \in DOMAIN Draws}
            = ((mesh \cap material \cap transform) \ (hidden \cup hidden_prop))

\* All three entities have the three components; e1 is Hidden, e2 is
\* HiddenPropagate, and only e3 is drawn.
C7_Witness ==
    /\ applied /\ visibility = None
    /\ mesh = Entity /\ material = Entity /\ transform = Entity
    /\ hidden = {"e1"} /\ hidden_prop = {"e2"}
    /\ Entities(Draws) = <<"e3">>

\* C10 as stated: no entity receives more than one draw call in one apply.
C10_AtMostOneDraw == applied => \A e \in Entity : DrawCount(e) <= 1

\* C10, amended: with no Visibility resource no entity receives more than one
\* draw call; with one, an entity receives at most one call from the
\* visible_unordered join if it is a member, and at most one per occurrence in
\* visible_ordered: at most one in all when visible_ordered repeats no entity and
\* shares none with visible_unordered.
C10_OneDrawPerListing ==
    applied =>
        \A e \in Entity :
            IF visibility = None THEN DrawCount(e) <= 1
            ELSE LET v == visibility[1]
                     listed == (IF e \in v.visible_unordered THEN 1 ELSE 0)
                               + Occurrences(e, v.visible_ordered)
                 IN  /\ DrawCount(e) <= listed
                     /\ listed <= 1 => DrawCount(e) <= 1

\* e1 is in visible_unordered and twice in visible_ordered, and is drawn three
\* times.
C10_Witness ==
    /\ WithVisibility
    /\ "e1" \in visibility[1].visible_unordered
    /\ visibility[1].visible_ordered = <<"e1", "e1">>
    /\ DrawCount("e1") = 3

(***************************************************************************)
(* Properties of the skybox pass (SpecSky)                                 *)
(***************************************************************************)
Built == pc # "desc"

\* Every object of the kind that was created has been destroyed.
Released(kind) == factory.created[kind] = factory.destroyed[kind]

\* C4: when pipeline creation fails, build returns Err with the pipeline layout
\* and both shader modules created in the call destroyed: the factory has
\* destroyed as many objects as it created.
C4_PipelineFailureReleases ==
    (Built /\ fail = "pipeline") =>
        /\ result = "Err"
        /\ factory.created["pipeline_layout"] = 1
        /\ factory.created["shader_module"] = 2
        /\ \A kind \in Kinds : Released(kind)

\* Pipeline creation failed after the layout and both modules were created.
C4_Witness ==
    /\ pc = "failed" /\ fail = "pipeline" /\ result = "Err"
    /\ factory.destroyed["pipeline_layout"] = 1
    /\ factory.destroyed["shader_module"] = 2
    /\ factory.created["graphics_pipeline"] = 0

\* C8: every failure of a build step is returned as Err, never a panic, and
\* every pipeline layout and shader module created before it is destroyed when
\* build returns.
C8_BuildFailureIsErr ==
    (Built /\ fail # "none") =>
        /\ result = "Err"
        /\ Released("pipeline_layout")
        /\ Released("shader_module")

TwoPrepares == pc = "live" /\ Len(prepares) = 2

\* The override resource held a colour at both calls, and not the same one.
OverrideChanged ==
    /\ prepares[1].source # None /\ prepares[2].source # None
    /\ prepares[1].source # prepares[2].source

\* C5 as stated: whichever frame indices two consecutive prepare calls are given,
\* the second returns DrawReuse if the colour source is unchanged between them
\* and DrawRecord if the override resource's colour was changed.
C5_AnyIndex ==
    TwoPrepares =>
        /\ prepares[1].source = prepares[2].source => prepares[2].result = "DrawReuse"
        /\ OverrideChanged => prepares[2].result = "DrawRecord"

\* C5, amended: for two consecutive prepare calls given the same frame index, the
\* second returns DrawReuse if the colour source is unchanged between them and
\* DrawRecord if the override resource's colour was changed.
C5_SameIndex ==
    (TwoPrepares /\ prepares[1].index = prepares[2].index) =>
        /\ prepares[1].source = prepares[2].source => prepares[2].result = "DrawReuse"
        /\ OverrideChanged => prepares[2].result = "DrawRecord"

\* The override's colour was changed between two calls for frame index 1.
C5_Witness ==
    /\ TwoPrepares /\ OverrideChanged
    /\ prepares[1].index = 1 /\ prepares[2].index = 1
    /\ prepares[2].result = "DrawRecord"

\* C9: draw_inline records, in this order, bind the graphics pipeline, bind the
\* environment set at slot 0 and the colour set at slot 1 for the frame index,
\* bind the mesh vertex buffer, and one non-indexed draw of vertices
\* 0..mesh.len() and instances 0..1; it changes no field of the pass.
C9_DrawInlineCommands ==
    last.op = "draw_inline" =>
        /\ skybox = last.pre
        /\ Len(pass_encoder) = 5
        /\ pass_encoder[1] = [cmd |-> "bind_graphics_pipeline", pipeline |-> "pipeline"]
        /\ pass_encoder[2] = [cmd |-> "bind_set", set |-> "env",
                              layout |-> "pipeline_layout", slot |-> 0,
                              index |-> last.index]
        /\ pass_encoder[3] = [cmd |-> "bind_set", set |-> "colors",
                              layout |-> "pipeline_layout", slot |-> 1,
                              index |-> last.index]
        /\ pass_encoder[4].cmd = "bind_vertex_buffers"
        /\ pass_encoder[5] = [cmd |-> "draw",
                              vertices |-> <<0, skybox[1].mesh.len>>,
                              instances |-> <<0, 1>>]

\* A draw for frame index 1 of a sphere of two vertices.
C9_Witness ==
    /\ last.op = "draw_inline" /\ last.index = 1
    /\ skybox[1].mesh.len = 2
    /\ pass_encoder[5].vertices = <<0, 2>>

====
